---- MODULE Spec2Model ----
(***************************************************************************)
(* Model of two recipes of the cookbook:                                   *)
(*   - Node / Tree of memory_management_in_cyclic_data_structures(tree).py *)
(*   - the first LazyConnection of context_manager.py                      *)
(*   - the two get_spam of creating_cached_instances.py, which are also    *)
(*     lines 1-70 of cached_instances.py                                   *)
(*                                                                         *)
(* Encoding.  Python's None is the integer 0 (record ids start at 1).  A   *)
(* Node object is identified by its position in Tree.nodes (1..Len(nodes)),*)
(* so a reference to a Node (parent, an entry of children, the module      *)
(* global `node`) is that position, and 0 is None / an unbound name.  The  *)
(* title of a record is carried by no operation and is left out.  The weak *)
(* parent reference is always alive, because Tree.nodes holds every Node.  *)
(***************************************************************************)
EXTENDS Integers, Sequences, FiniteSets, TLC

\* ---------------------------------------------------------------- bounds
MaxNodes == 3        \* number of records of a generated input
MaxParents == 4      \* cap on the length of `parents` in a non-terminating ancestors loop
MaxSockets == 5      \* cap on the number of sockets a LazyConnection creates
MaxSpams == 3        \* cap on the number of Spam instances created
MaxHeld == 3         \* cap on the number of get_spam results a caller holds

None == 0

VARIABLES
  items,      \* the argument of Tree(items): a sequence of [id, parent_id]
  nodes,      \* Tree.nodes: sequence of Node objects
  node,       \* the module global `node` (0: the name is not bound)
  pc,         \* "new" before Tree.__init__, "idle", "desc" or "anc" inside a loop
  op,         \* the query being (or last) executed
  arg,        \* its argument n (a Node reference)
  copy,       \* descendants: the local list n.children.copy()
  stack,      \* descendants: stack of list references (0: copy, k: nodes[k].children)
  yielded,    \* descendants: the nodes yielded so far
  node_,      \* ancestors: local node_
  parents,    \* ancestors: local parents
  result,     \* what the last finished query returned or raised
  fresh,      \* descendants: no Node had been touched since Tree.__init__ when the call was made
  kept,       \* a fully consumed descendants(n) the caller still holds: [n, val]
  sock,       \* LazyConnection.sock (0: None)
  sockets,    \* every socket object created so far: [closed, connected]
  outcome,    \* what the last __enter__/__exit__ returned or raised
  spam_module,\* the file the second get_spam is called in
  spams,      \* every instance of the first class Spam created so far: its name
  _spam_cache,\* the module-level WeakValueDictionary: name -> Spam (0: no entry)
  _cache,     \* Spam.manager._cache: name -> Spam (0: no entry)
  held1,      \* results of the first get_spam the caller still refers to: [name, obj, exc]
  held2       \* results of the second get_spam the caller still refers to

treevars == <<items, nodes, node, pc, op, arg, copy, stack, yielded, node_, parents, result, fresh, kept>>
connvars == <<sock, sockets, outcome>>
spamvars == <<spam_module, spams, _spam_cache, _cache, held1, held2>>
vars == <<items, nodes, node, pc, op, arg, copy, stack, yielded, node_, parents, result, fresh, kept,
          sock, sockets, outcome,
          spam_module, spams, _spam_cache, _cache, held1, held2>>

\* ------------------------------------------------------------- the input
\* the sample records of the module (id, parent_id)
data ==
  << [id |-> 1, parent_id |-> None], [id |-> 2, parent_id |-> None],
     [id |-> 3, parent_id |-> 1],    [id |-> 4, parent_id |-> 2],
     [id |-> 5, parent_id |-> 3],    [id |-> 6, parent_id |-> 4],
     [id |-> 7, parent_id |-> 6],    [id |-> 8, parent_id |-> 5],
     [id |-> 9, parent_id |-> 5] >>

\* generated inputs: MaxNodes records with ids 1..MaxNodes in input order (the
\* code only compares ids for equality), each parent_id None, any id (its own
\* included) or MaxNodes+1, an id no record has
Inputs ==
  { [i \in 1..MaxNodes |-> [id |-> i, parent_id |-> p[i]]] :
      p \in [1..MaxNodes -> 0..(MaxNodes + 1)] }

\* ------------------------------------------------------------ class Node
Node(id_, parent_id) ==
  [id |-> id_, parent_id |-> parent_id, parent |-> None, children |-> <<>>]

\* the truth value of a Node without __len__: every object is true
Truthy_object(ns, n) == n # None

\* Node.__len__, which is also the truth value of a Node; None is false
Truthy(ns, n) == n # None /\ Len(ns[n].children) > 0

\* add_child without `node_.parent = self`
add_child_no_parent(ns, n, c) ==
  [ns EXCEPT ![n].children = Append(@, c)]

\* Node.add_child
add_child(ns, n, c) ==
  LET ns1 == [ns EXCEPT ![n].children = Append(@, c)]
  IN  [ns1 EXCEPT ![c].parent = n]

\* ------------------------------------------------------------ class Tree
create_node(ns, item) == Append(ns, Node(item.id, item.parent_id))

RECURSIVE create_nodes(_, _, _)
create_nodes(ns, its, i) ==
  IF i > Len(its) THEN ns ELSE create_nodes(create_node(ns, its[i]), its, i + 1)

\* the filter matching on the position in Tree.nodes, later nodes only
is_child_by_position(ns, n, x) == ns[x].parent_id = n /\ x > n

\* lambda x: x.parent_id == n.id
is_child(ns, n, x) == ns[x].parent_id = ns[n].id

\* the inner loop of populate_children: for child in children: n.add_child(child),
\* children being the nodes x, in the order of Tree.nodes, that pass the filter
RECURSIVE add_children(_, _, _)
add_children(ns, n, x) ==
  IF x > Len(ns) THEN ns
  ELSE LET ns1 == IF is_child(ns, n, x) THEN add_child(ns, n, x) ELSE ns
       IN  add_children(ns1, n, x + 1)

\* the outer loop of populate_children: for n in self.nodes
RECURSIVE populate_loop(_, _)
populate_loop(ns, n) ==
  IF n > Len(ns) THEN ns
  ELSE LET ns1 == add_children(ns, n, 1)
       IN  populate_loop(ns1, n + 1)

populate_children(ns) == populate_loop(ns, 1)

\* Tree(items).nodes
Tree(its) == populate_children(create_nodes(<<>>, its, 1))

NoKept == [n |-> None, val |-> <<>>]
NoResult == [kind |-> "none", val |-> <<>>]
List(s) == [kind |-> "list", val |-> s]
NodeRef(n) == [kind |-> "node", val |-> <<n>>]
Raised(e) == [kind |-> e, val |-> <<>>]

Idle ==
  /\ pc' = "idle"
  /\ copy' = <<>> /\ stack' = <<>> /\ yielded' = <<>>
  /\ node_' = None /\ parents' = <<>>

\* Tree.__init__
Tree_init ==
  /\ pc = "new"
  /\ nodes' = Tree(items)
  /\ pc' = "idle"
  /\ UNCHANGED <<items, node, op, arg, copy, stack, yielded, node_, parents, result, fresh, kept>>
  /\ UNCHANGED connvars
  /\ UNCHANGED spamvars

\* the __main__ block: its for loop leaves the global `node` bound to the last Node
main_block ==
  /\ pc = "idle" /\ node = None /\ op = "none"
  /\ node' = Len(nodes)
  /\ UNCHANGED <<items, nodes, pc, op, arg, copy, stack, yielded, node_, parents, result, fresh, kept>>
  /\ UNCHANGED connvars
  /\ UNCHANGED spamvars

\* Tree.children
children ==
  /\ pc = "idle"
  /\ \E n \in 1..Len(nodes) :
       /\ op' = "children" /\ arg' = n
       /\ result' = List(nodes[n].children)
  /\ UNCHANGED <<items, nodes, node, pc, copy, stack, yielded, node_, parents, fresh, kept>>
  /\ UNCHANGED connvars
  /\ UNCHANGED spamvars

\* ---------------------------------------------------- Tree.descendants
\* the list a stack entry refers to
deref(ns, cp, r) == IF r = 0 THEN cp ELSE ns[r].children

\* children.pop(0) on the list a stack entry refers to: the Node's own list
\* when the entry came from stack.append(child.children)
pop0_nodes(ns, r) == IF r = 0 THEN ns ELSE [ns EXCEPT ![r].children = Tail(@)]
pop0_copy(cp, r) == IF r = 0 THEN Tail(cp) ELSE cp

\* descendants without the append
push_never(ns, st, child) == st

\* if child.children: stack.append(child.children)
push_children(ns, st, child) ==
  IF Len(ns[child].children) > 0 THEN Append(st, child) ELSE st

\* the else branch without the pop
stack_keep(st) == st

\* stack.pop()
stack_pop(st) == SubSeq(st, 1, Len(st) - 1)

\* the call: children = n.children.copy(); stack = [children]
descendants ==
  /\ pc = "idle"
  /\ \E n \in 1..Len(nodes) :
       /\ op' = "descendants" /\ arg' = n
       /\ copy' = nodes[n].children
  /\ stack' = <<0>>
  /\ yielded' = <<>>
  /\ pc' = "desc"
  /\ result' = NoResult
  /\ fresh' = (nodes = Tree(items))
  /\ UNCHANGED <<items, nodes, node, node_, parents, kept>>
  /\ UNCHANGED connvars
  /\ UNCHANGED spamvars

\* one iteration of `while stack`, taking the branch `if children`: the next
\* item of the generator
descendants_yield ==
  /\ pc = "desc" /\ stack # <<>>
  /\ LET top == stack[Len(stack)]
         lst == deref(nodes, copy, top)
     IN  /\ lst # <<>>
         /\ LET child == Head(lst)
                ns1 == pop0_nodes(nodes, top)
            IN  /\ nodes' = ns1
                /\ copy' = pop0_copy(copy, top)
                /\ yielded' = Append(yielded, child)
                /\ stack' = push_children(ns1, stack, child)
  /\ UNCHANGED <<items, node, pc, op, arg, node_, parents, result, fresh, kept>>
  /\ UNCHANGED connvars
  /\ UNCHANGED spamvars

\* one iteration of `while stack`, taking the branch `else: stack.pop()`
descendants_pop ==
  /\ pc = "desc" /\ stack # <<>>
  /\ deref(nodes, copy, stack[Len(stack)]) = <<>>
  /\ stack' = stack_pop(stack)
  /\ UNCHANGED <<items, nodes, node, pc, op, arg, copy, yielded, node_, parents, result, fresh, kept>>
  /\ UNCHANGED connvars
  /\ UNCHANGED spamvars

\* `while stack` is false: the generator is exhausted and the caller holds
\* everything it yielded
descendants_stop ==
  /\ pc = "desc" /\ stack = <<>>
  /\ result' = List(yielded)
  /\ \/ kept' = [n |-> arg, val |-> yielded]
     \/ kept' = kept
  /\ Idle
  /\ UNCHANGED <<items, nodes, node, op, arg, fresh>>
  /\ UNCHANGED connvars
  /\ UNCHANGED spamvars

\* ------------------------------------------------ Tree.ancestors, Tree.root
\* parents = []; node_ = n
ancestors ==
  /\ pc = "idle"
  /\ \E n \in 1..Len(nodes) : arg' = n /\ node_' = n
  /\ op' = "ancestors"
  /\ parents' = <<>>
  /\ pc' = "anc"
  /\ result' = NoResult
  /\ UNCHANGED <<items, nodes, node, copy, stack, yielded, fresh, kept>>
  /\ UNCHANGED connvars
  /\ UNCHANGED spamvars

\* ancestors = self.ancestors(n)
root ==
  /\ pc = "idle"
  /\ \E n \in 1..Len(nodes) : arg' = n /\ node_' = n
  /\ op' = "root"
  /\ parents' = <<>>
  /\ pc' = "anc"
  /\ result' = NoResult
  /\ UNCHANGED <<items, nodes, node, copy, stack, yielded, fresh, kept>>
  /\ UNCHANGED connvars
  /\ UNCHANGED spamvars

\* the body of `while node_`: node_ = node_.parent; parents.insert(0, node),
\* where `node` is the module global
ancestors_loop ==
  /\ pc = "anc" /\ Truthy(nodes, node_)
  /\ Len(parents) < MaxParents
  /\ node # None
  /\ node_' = nodes[node_].parent
  /\ parents' = <<node>> \o parents
  /\ UNCHANGED <<items, nodes, node, pc, op, arg, copy, stack, yielded, result, fresh, kept>>
  /\ UNCHANGED connvars
  /\ UNCHANGED spamvars

\* the same body when the global name `node` is not bound
ancestors_NameError ==
  /\ pc = "anc" /\ Truthy(nodes, node_)
  /\ node = None
  /\ result' = Raised("NameError")
  /\ Idle
  /\ UNCHANGED <<items, nodes, node, op, arg, fresh, kept>>
  /\ UNCHANGED connvars
  /\ UNCHANGED spamvars

\* return ancestors[0] if ancestors else []
root_result(ps) == IF ps # <<>> THEN NodeRef(ps[1]) ELSE List(<<>>)

\* `while node_` is false: return parents, to the caller or to root
ancestors_return ==
  /\ pc = "anc" /\ ~Truthy(nodes, node_)
  /\ result' = IF op = "root" THEN root_result(parents) ELSE List(parents)
  /\ Idle
  /\ UNCHANGED <<items, nodes, node, op, arg, fresh, kept>>
  /\ UNCHANGED connvars
  /\ UNCHANGED spamvars

\* ------------------------------------------- the first class LazyConnection
\* socket(self.family, self.type): a new, open, unconnected socket object
socket == [closed |-> FALSE, connected |-> FALSE]

\* __enter__ without the check
never_connected(s) == FALSE

\* if self.sock is not None
already_connected(s) == s # None

\* self.sock.close()
close(ss, s) == [ss EXCEPT ![s].closed = TRUE]

\* LazyConnection.__enter__; connect() succeeds or raises OSError
LazyConnection_enter ==
  /\ IF already_connected(sock)
     THEN /\ outcome' = "RuntimeError"
          /\ UNCHANGED <<sock, sockets>>
     ELSE /\ Len(sockets) < MaxSockets
          /\ sock' = Len(sockets) + 1
          /\ \E ok \in BOOLEAN :
               /\ sockets' = Append(sockets, [socket EXCEPT !.connected = ok])
               /\ outcome' = IF ok THEN "returned" ELSE "OSError"
  /\ UNCHANGED treevars
  /\ UNCHANGED spamvars

\* LazyConnection.__exit__; None has no close()
LazyConnection_exit ==
  /\ IF sock = None
     THEN /\ outcome' = "AttributeError"
          /\ UNCHANGED <<sock, sockets>>
     ELSE /\ sockets' = [sockets EXCEPT ![sock].closed = TRUE]
          /\ sock' = None
          /\ outcome' = "exited"
  /\ UNCHANGED treevars
  /\ UNCHANGED spamvars

\* ------------------------------------------------ get_spam, CachedSpamManager
Names == {"foo", "bar"}

\* the files that define the second get_spam; cached_instances.py goes on to
\* rebind the name Spam to a class that has no attribute `manager`
SpamModules == {"creating_cached_instances", "cached_instances"}

Returns(name, obj) == [name |-> name, obj |-> obj, exc |-> "none"]
Raises(name, e) == [name |-> name, obj |-> None, exc |-> e]

\* the objects the caller refers to
Referenced(h) == { h[i].obj : i \in DOMAIN h } \ {None}

\* a WeakValueDictionary drops the entry of an object nothing else refers to
weak_purge(cache, refs) ==
  [k \in Names |-> IF cache[k] \in refs THEN cache[k] ELSE None]

\* the first get_spam: Spam(name) on a miss, the cached instance on a hit
get_spam_cache ==
  /\ Len(held1) < MaxHeld
  /\ \E name \in Names :
       IF _spam_cache[name] = None
       THEN /\ Len(spams) < MaxSpams
            /\ spams' = Append(spams, name)
            /\ _spam_cache' = [_spam_cache EXCEPT ![name] = Len(spams) + 1]
            /\ held1' = Append(held1, Returns(name, Len(spams) + 1))
       ELSE /\ held1' = Append(held1, Returns(name, _spam_cache[name]))
            /\ UNCHANGED <<spams, _spam_cache>>
  /\ UNCHANGED <<spam_module, _cache, held2>>
  /\ UNCHANGED treevars
  /\ UNCHANGED connvars

\* Spam._new: cls.__new__(cls), self.name = name, and no return statement:
\* the new object is dropped and the caller gets None
Spam_new(name) == None

\* CachedSpamManager.get_spam; self._cache[name] = s needs a weak reference
\* to s, which None does not support
CachedSpamManager_get_spam(name) ==
  IF _cache[name] = None
  THEN LET s == Spam_new(name)
       IN  IF s = None
           THEN /\ held2' = Append(held2, Raises(name, "TypeError"))
                /\ UNCHANGED _cache
           ELSE /\ _cache' = [_cache EXCEPT ![name] = s]
                /\ held2' = Append(held2, Returns(name, s))
  ELSE /\ held2' = Append(held2, Returns(name, _cache[name]))
       /\ UNCHANGED _cache

\* the second get_spam: return Spam.manager.get_spam(name)
get_spam ==
  /\ Len(held2) < MaxHeld
  /\ \E name \in Names :
       IF spam_module = "cached_instances"
       THEN /\ held2' = Append(held2, Raises(name, "AttributeError"))
            /\ UNCHANGED _cache
       ELSE CachedSpamManager_get_spam(name)
  /\ UNCHANGED <<spam_module, spams, _spam_cache, held1>>
  /\ UNCHANGED treevars
  /\ UNCHANGED connvars

Without(h, name) == SelectSeq(h, LAMBDA e : e.name # name)

\* the caller drops every result it holds for a name (del a, c): the weak
\* dictionaries lose the entries of the objects that die
del_results ==
  /\ \E name \in Names :
       /\ held1' = Without(held1, name)
       /\ held2' = Without(held2, name)
       /\ _spam_cache' = weak_purge(_spam_cache, Referenced(Without(held1, name)))
       /\ _cache' = weak_purge(_cache, Referenced(Without(held2, name)))
  /\ UNCHANGED <<spam_module, spams>>
  /\ UNCHANGED treevars
  /\ UNCHANGED connvars

SpamInit ==
  /\ spam_module = "creating_cached_instances"
  /\ spams = <<>>
  /\ _spam_cache = [k \in Names |-> None]
  /\ _cache = [k \in Names |-> None]
  /\ held1 = <<>> /\ held2 = <<>>

TreeInit ==
  /\ items \in Inputs \cup {data}
  /\ nodes = <<>> /\ node = None /\ pc = "new" /\ op = "none" /\ arg = None
  /\ copy = <<>> /\ stack = <<>> /\ yielded = <<>> /\ node_ = None /\ parents = <<>>
  /\ result = NoResult /\ fresh = FALSE /\ kept = NoKept

ConnInit == sock = None /\ sockets = <<>> /\ outcome = "none"

Init == TreeInit /\ ConnInit /\ SpamInit

Next ==
  \/ Tree_init \/ main_block \/ children
  \/ descendants \/ descendants_yield \/ descendants_pop \/ descendants_stop
  \/ ancestors \/ root \/ ancestors_loop \/ ancestors_NameError \/ ancestors_return

Spec == Init /\ [][Next]_vars

\* descendants is consumed to the end: the loop of a started generator keeps running
SpecLive == Spec /\ WF_vars(descendants_yield) /\ WF_vars(descendants_pop) /\ WF_vars(descendants_stop)

\* the connection on its own, next to the module's tree
InitConn == TreeInit /\ items = data /\ ConnInit /\ SpamInit

NextConn == LazyConnection_enter \/ LazyConnection_exit

SpecConn == InitConn /\ [][NextConn]_vars

\* the two get_spam on their own, in either file
InitSpam ==
  /\ TreeInit /\ items = data /\ ConnInit
  /\ spam_module \in SpamModules
  /\ spams = <<>>
  /\ _spam_cache = [k \in Names |-> None]
  /\ _cache = [k \in Names |-> None]
  /\ held1 = <<>> /\ held2 = <<>>

NextSpam == get_spam_cache \/ get_spam \/ del_results

SpecSpam == InitSpam /\ [][NextSpam]_vars

\* --------------------------------------------- the input, as the claims see it
Range(q) == { q[i] : i \in DOMAIN q }
NoDup(q) == \A i, j \in DOMAIN q : q[i] = q[j] => i = j
Occurrences(q, x) == Cardinality({ i \in DOMAIN q : q[i] = x })

\* the record a record's parent_id names (0: parent_id is null or names no record)
ParentRecord(its, i) ==
  IF its[i].parent_id # None /\ \E j \in DOMAIN its : its[j].id = its[i].parent_id
  THEN CHOOSE j \in DOMAIN its : its[j].id = its[i].parent_id
  ELSE 0

Dangling(its, i) == its[i].parent_id # None /\ ParentRecord(its, i) = 0

\* every parent_id is null or the id of another record
WellFormed(its) ==
  \A i \in DOMAIN its :
    its[i].parent_id = None \/ (ParentRecord(its, i) # 0 /\ ParentRecord(its, i) # i)

\* the record k parent links above record i (0: the chain ends before)
RECURSIVE Up(_, _, _)
Up(its, i, k) ==
  IF i = 0 \/ k = 0 THEN i ELSE Up(its, ParentRecord(its, i), k - 1)

\* no record is its own ancestor
Acyclic(its) == \A i \in DOMAIN its : Up(its, i, Len(its)) = 0

\* the parent chain of record i, from the root down to its immediate parent
RECURSIVE Chain(_, _, _)
Chain(its, i, fuel) ==
  IF fuel = 0 \/ ParentRecord(its, i) = 0 THEN <<>>
  ELSE Append(Chain(its, ParentRecord(its, i), fuel - 1), ParentRecord(its, i))

ParentChain(its, i) == Chain(its, i, Len(its))

\* the records below record n
Below(its, n) == { i \in DOMAIN its : \E k \in 1..Len(its) : Up(its, i, k) = n }

\* the states right after Tree.__init__, before any query
Constructed == pc = "idle" /\ op = "none"

Returned(o) == pc = "idle" /\ op = o

\* ------------------------------------------------------------------- C1
ChildOccurrences(ns, c) ==
  Cardinality({ <<n, i>> \in (DOMAIN ns) \X (1..Len(ns)) :
                  i \in DOMAIN ns[n].children /\ ns[n].children[i] = c })

EdgesOf(ns, c) ==
  IF ns[c].parent_id = None
  THEN ChildOccurrences(ns, c) = 0
  ELSE /\ ns[c].parent # None
       /\ ns[ns[c].parent].id = ns[c].parent_id
       /\ Occurrences(ns[ns[c].parent].children, c) = 1
       /\ ChildOccurrences(ns, c) = 1

\* C1: after Tree(items) on records with unique ids whose parent_id is null or
\* the id of another record, the children of every node N are exactly the nodes
\* whose parent_id is N.id, each once; every node with a parent_id has the node
\* of that id as parent; and every non-root node is in the children of exactly
\* one node, a root in none.
C1_EdgesConsistent ==
  (Constructed /\ WellFormed(items)) =>
    /\ \A n, c \in DOMAIN nodes :
         Occurrences(nodes[n].children, c) =
           (IF nodes[c].parent_id = nodes[n].id THEN 1 ELSE 0)
    /\ \A c \in DOMAIN nodes : EdgesOf(nodes, c)

C1_Witness ==
  /\ Constructed /\ items = data
  /\ nodes[5].children = <<8, 9>> /\ nodes[5].parent = 3
  /\ nodes[9].parent = 5 /\ nodes[1].parent = None

\* ------------------------------------------------------------------- C2
\* C2: on a well-formed tree, ancestors(n) returns the parent chain of n from the
\* root down to n's immediate parent, without n: d elements for a node of depth d.
C2_AncestorsRootFirst ==
  (Returned("ancestors") /\ WellFormed(items) /\ Acyclic(items)) =>
    result = List(ParentChain(items, arg))

\* ------------------------------------------------------------------- C3
\* C3: on a freshly constructed well-formed tree, descendants(n) consumed to the
\* end yields exactly the nodes below n, each once, and never n.
C3_DescendantsComplete ==
  (Returned("descendants") /\ fresh /\ WellFormed(items) /\ Acyclic(items)) =>
    /\ result.kind = "list"
    /\ NoDup(result.val)
    /\ Range(result.val) = Below(items, arg)
    /\ arg \notin Range(result.val)

C3_Witness ==
  /\ Returned("descendants") /\ fresh /\ items = data
  /\ arg = 2 /\ result = List(<<4, 6, 7>>)

\* ------------------------------------------------------------------- C4
\* C4: children, ancestors, root and descendants are pure reads: on a well-formed
\* tree no step taken after Tree.__init__ changes the children or the parent of
\* any node.
C4_PureReads ==
  [][(pc # "new" /\ WellFormed(items) /\ Acyclic(items)) => nodes' = nodes]_vars

\* ------------------------------------------------------------------- C5
\* C5: descendants is restartable: a fully consumed descendants(n) yields the
\* same set as an earlier fully consumed descendants(n) on the same tree,
\* whatever was consumed in between.
C5_Restartable ==
  (Returned("descendants") /\ kept.n = arg /\ WellFormed(items) /\ Acyclic(items)) =>
    Range(result.val) = Range(kept.val)

\* ------------------------------------------------------------------- C6
\* C6: for a node n with at least one ancestor, root(n) returns the top-most
\* node of n's parent chain, the ancestor whose parent_id is null.
C6_RootIsTopAncestor ==
  (Returned("root") /\ WellFormed(items) /\ Acyclic(items)
     /\ items[arg].parent_id # None) =>
    /\ result = NodeRef(ParentChain(items, arg)[1])
    /\ nodes[result.val[1]].parent_id = None

\* ------------------------------------------------------------------- C7
\* C7: on a well-formed tree, root(n) of a node n whose parent_id is null returns
\* the empty list, and never n itself.
C7_RootOfRootIsEmpty ==
  (Returned("root") /\ WellFormed(items) /\ Acyclic(items)
     /\ items[arg].parent_id = None) =>
    result = List(<<>>)

\* ------------------------------------------------------------------- C8
\* C8: on a finite tree whose parent chain is acyclic, a started descendants(n)
\* yields fewer nodes than the tree has and its loop ends with an empty stack.
C8_DescendantsTerminates ==
  /\ [](pc = "desc" /\ Acyclic(items) => Len(yielded) < Len(nodes))
  /\ [](pc = "desc" /\ Acyclic(items) => <>(pc = "idle" /\ stack = <<>>))

C8_Witness ==
  /\ Returned("descendants") /\ Acyclic(items)
  /\ Len(result.val) >= 2 /\ stack = <<>>

\* ------------------------------------------------------------------- C9
\* C9: Tree(items) with a parent_id that matches no id builds one Node per
\* record in input order; the dangling node keeps its parent_id, has parent None
\* and is in no children list; the edges of every other node are as for
\* well-formed input.
C9_DanglingParent ==
  (Constructed /\ \E k \in DOMAIN items : Dangling(items, k)) =>
    /\ Len(nodes) = Len(items)
    /\ \A k \in DOMAIN items :
         /\ nodes[k].id = items[k].id
         /\ nodes[k].parent_id = items[k].parent_id
         /\ IF Dangling(items, k)
            THEN nodes[k].parent = None /\ ChildOccurrences(nodes, k) = 0
            ELSE EdgesOf(nodes, k)

C9_Witness ==
  /\ Constructed
  /\ \E k, c \in DOMAIN items :
       /\ Dangling(items, k) /\ nodes[k].parent = None
       /\ nodes[c].parent = k /\ nodes[k].children = <<c>>

\* ------------------------------------------------------------------ C10
OpenSockets == { i \in DOMAIN sockets : ~sockets[i].closed }

EnterOutcomes == {"RuntimeError", "returned", "OSError"}
ExitOutcomes == {"AttributeError", "exited"}

\* C10: at most one socket is open at any time, and it is the one self.sock
\* refers to; __enter__ while a socket is open raises RuntimeError and leaves it
\* open and referenced; __exit__ closes it and resets sock to None; __enter__
\* with sock None is not refused and installs a new open socket.
C10_SingleSocket ==
  /\ [](Cardinality(OpenSockets) <= 1 /\ OpenSockets \subseteq {sock})
  /\ [][ /\ (sock # None /\ outcome' \in EnterOutcomes) =>
              (outcome' = "RuntimeError" /\ sock' = sock /\ sockets' = sockets)
         /\ (sock # None /\ outcome' \in ExitOutcomes) =>
              (outcome' = "exited" /\ sock' = None /\ sockets' = [sockets EXCEPT ![sock].closed = TRUE]
                 /\ OpenSockets' = {})
         /\ (sock = None /\ outcome' \in EnterOutcomes) =>
              (outcome' # "RuntimeError" /\ sock' = Len(sockets) + 1
                 /\ OpenSockets' = {sock'}
                 /\ (outcome' = "returned" <=> sockets'[sock'].connected)) ]_vars

C10_Witness ==
  /\ outcome = "RuntimeError" /\ sock = 2 /\ OpenSockets = {2}
  /\ sockets[1].closed /\ sockets[2].connected

SpamContract(h) ==
  /\ \A i \in DOMAIN h :
       h[i].exc = "none" /\ h[i].obj \in DOMAIN spams /\ spams[h[i].obj] = h[i].name
  /\ \A i, j \in DOMAIN h : (h[i].name = h[j].name) <=> (h[i].obj = h[j].obj)

\* C11: the get_spam built on CachedSpamManager behaves like the get_spam on the
\* module-level cache: the results still referenced are Spam instances of the
\* requested names, identical for equal names and distinct for different names.
C11_ManagerLikeModuleCache == SpamContract(held1) /\ SpamContract(held2)
====
